---------------------------- MODULE Spec2Model ----------------------------
(***************************************************************************)
(* Model of the Trivia REST backend (backend/flaskr/__init__.py).          *)
(*                                                                         *)
(* State: the questions table, the categories table, the id sequence of    *)
(* the questions table, the last request served and the response it got.   *)
(* One action per route handler.  Strings are tuples of one-character      *)
(* strings so that substring search and ILIKE matching are computed.       *)
(***************************************************************************)
EXTENDS Integers, Sequences, FiniteSets, TLC

VARIABLES questions,    \* rows of the questions table (set of records)
          categories,   \* rows of the categories table (set of records)
          nextId,       \* next value of the questions id sequence
          creates,      \* number of rows inserted since start-up
          request,      \* the request served last
          response,     \* the response to it
          pg            \* driver state of the stand-alone pagination check

vars == <<questions, categories, nextId, creates, request, response, pg>>

----------------------------------------------------------------------------
(* Bounds of the model *)

MaxSeed   == 3   \* largest number of rows the table holds at start-up
MaxQuizSeed == 3 \* largest number of rows of the table a quiz is played on
MinRows   == 11  \* fewest rows of a table that starts with several pages
MaxRows   == 11  \* most rows of a table that starts with several pages
MaxWrites == 2   \* successful creations and deletions
LowPages  == 2   \* number of ?page= values below 1 requested
MaxPage   == 2   \* largest ?page= value requested
MaxItems  == 21  \* longest sequence given to the stand-alone pagination
MaxPgPage == 4   \* largest page number asked of the stand-alone pagination

(* Program constant *)
QUESTIONS_PER_PAGE == 10

----------------------------------------------------------------------------
(* Generic helpers: Python list slicing, ordering, strings *)

Min(a, b) == IF a < b THEN a ELSE b
Max(a, b) == IF a > b THEN a ELSE b

\* Python's s[start:end] for arbitrary integers start, end
PySlice(s, start, end) ==
    LET norm(i) == IF i < 0 THEN Max(i + Len(s), 0) ELSE Min(i, Len(s))
        lo == norm(start)
        hi == norm(end)
    IN  IF lo >= hi THEN << >> ELSE SubSeq(s, lo + 1, hi)

\* .order_by(Question.id).all(): the rows of S as a list in ascending id
Ids(S) == {q.id : q \in S}

RECURSIVE OrderById(_)
OrderById(S) ==
    IF S = {} THEN << >>
    ELSE LET ids == Ids(S)
             least == CHOOSE i \in ids : \A j \in ids : i <= j
             m == CHOOSE q \in S : q.id = least
         IN  <<m>> \o OrderById(S \ {m})

Lower(c) == IF c = "A" THEN "a" ELSE IF c = "B" THEN "b" ELSE c

\* SQL LIKE with case folding (ILIKE): % any run of characters, _ any one
RECURSIVE LikeMatch(_, _)
LikeMatch(p, s) ==
    IF p = << >> THEN s = << >>
    ELSE IF Head(p) = "%"
         THEN LikeMatch(Tail(p), s) \/ (s # << >> /\ LikeMatch(p, Tail(s)))
    ELSE IF s = << >> THEN FALSE
    ELSE /\ (Head(p) = "_" \/ Lower(Head(p)) = Lower(Head(s)))
         /\ LikeMatch(Tail(p), Tail(s))

\* Question.question.ilike("%{}%".format(search))
ilike(text, search) == LikeMatch(<<"%">> \o search \o <<"%">>, text)

----------------------------------------------------------------------------
(* Rows and the storage layer (models.py) *)

\* Question.format(): the row as a dictionary
format(q) ==
    [id |-> q.id, question |-> q.question, answer |-> q.answer,
     category |-> q.category, difficulty |-> q.difficulty]

\* Question.insert(): add the row under the next id of the sequence
insert(S, id, fields) ==
    S \cup {[id |-> id, question |-> fields.question, answer |-> fields.answer,
             category |-> fields.category, difficulty |-> fields.difficulty]}

\* Question.delete(): remove the row
delete(S, q) == S \ {q}

SeedText(i) ==
    IF i % 3 = 1 THEN <<"A", "b">>
    ELSE IF i % 3 = 2 THEN <<"b", "a">>
    ELSE <<"a", "_">>

SeedCategory(i) == IF i % 4 = 0 THEN 2 ELSE 1

SeedQuestion(i) ==
    [id |-> i, question |-> SeedText(i), answer |-> <<"a">>,
     category |-> SeedCategory(i), difficulty |-> 1]

SeedQuestions(n) == {SeedQuestion(i) : i \in 1..n}

SeedCategories == {[id |-> 1, type |-> "Science"], [id |-> 2, type |-> "Art"]}

----------------------------------------------------------------------------
(* Inputs *)

\* the raw ?page= query argument: absent, not a number, or a number
PageArgs ==
    {[kind |-> "absent", n |-> 0]}
    \cup {[kind |-> "int", n |-> i] : i \in (1 - LowPages)..MaxPage}

\* the ?page= arguments sent along with DELETE and POST /questions
FewPageArgs == {[kind |-> "absent", n |-> 0], [kind |-> "int", n |-> MaxPage]}

\* request.args.get("page", 1, type=int)
PageOf(arg) == IF arg.kind = "int" THEN arg.n ELSE 1

CategoryIds   == 1..3

\* body.get('searchTerm', None): None or a string
SearchTerms ==
    {[isNone |-> TRUE, str |-> << >>]}
    \cup {[isNone |-> FALSE, str |-> s] :
            s \in {<< >>, <<"a", "B">>, <<"b", "b">>, <<"_">>, <<"%">>}}

----------------------------------------------------------------------------
(* Pagination *)

\* the slice starts one item late
paginate_questions_late(arg, selection) ==
    LET page == PageOf(arg)
        start == (page - 1) * QUESTIONS_PER_PAGE + 1
        end == start + QUESTIONS_PER_PAGE
        qs == [i \in 1..Len(selection) |-> format(selection[i])]
    IN  PySlice(qs, start, end)

paginate_questions(arg, selection) ==
    LET page == PageOf(arg)
        start == (page - 1) * QUESTIONS_PER_PAGE
        end == start + QUESTIONS_PER_PAGE
        qs == [i \in 1..Len(selection) |-> format(selection[i])]
    IN  PySlice(qs, start, end)

----------------------------------------------------------------------------
(* Responses *)

jsonify(status, body) == [status |-> status, json |-> TRUE, body |-> body]

bad_request ==
    jsonify(400, [success |-> FALSE, error |-> 400, message |-> "Bad Request"])

not_found ==
    jsonify(404, [success |-> FALSE, error |-> 404, message |-> "Not Found"])

unprocessable ==
    jsonify(422, [success |-> FALSE, error |-> 422, message |-> "Unprocessable"])

internal_server_error ==
    jsonify(500, [success |-> FALSE, error |-> 500,
                  message |-> "Internal Server Error"])

\* abort(code): the registered error handler answers; a status without a
\* registered handler gets the framework's default HTML error page
abort(code) ==
    IF code = 400 THEN bad_request
    ELSE IF code = 404 THEN not_found
    ELSE IF code = 422 THEN unprocessable
    ELSE IF code = 500 THEN internal_server_error
    ELSE [status |-> code, json |-> FALSE, body |-> [html |-> TRUE]]

NoRequest  == [op |-> "none"]
NoResponse == [status |-> 0, json |-> FALSE, body |-> [html |-> FALSE]]

Success(r) == r.status = 200

----------------------------------------------------------------------------
(* Handlers *)

\* successful creations and deletions so far
Writes == creates + ((nextId - 1) - Cardinality(questions))

\* GET /categories
get_categories ==
    /\ request' = [op |-> "get_categories"]
    /\ response' =
         IF Cardinality(categories) = 0 THEN abort(404)
         ELSE jsonify(200, [success |-> TRUE, categories |-> categories])
    /\ UNCHANGED <<questions, categories, nextId, creates, pg>>

\* answers 404 only for an empty table, not for an empty page
get_questions_no_page_check(arg) ==
    LET selection == OrderById(questions)
        current_questions ==
            IF Len(selection) > 0
            THEN paginate_questions(arg, selection)
            ELSE << >>
    IN  /\ request' = [op |-> "get_questions", page |-> arg]
        /\ response' =
             IF Len(selection) = 0 THEN abort(404)
             ELSE jsonify(200, [success |-> TRUE,
                                questions |-> current_questions,
                                total_questions |-> Len(selection),
                                current_category |-> << >>,
                                categories |-> categories])
        /\ UNCHANGED <<questions, categories, nextId, creates, pg>>

\* GET /questions?page=N
get_questions(arg) ==
    LET selection == OrderById(questions)
        current_questions ==
            IF Len(selection) > 0
            THEN paginate_questions(arg, selection)
            ELSE << >>
    IN  /\ request' = [op |-> "get_questions", page |-> arg]
        /\ response' =
             IF Len(current_questions) = 0 THEN abort(404)
             ELSE jsonify(200, [success |-> TRUE,
                                questions |-> current_questions,
                                total_questions |-> Len(selection),
                                current_category |-> << >>,
                                categories |-> categories])
        /\ UNCHANGED <<questions, categories, nextId, creates, pg>>

\* lists the remaining questions from a query made before the deletion
delete_question_stale(question_id, arg, fault) ==
    LET found == {q \in questions : q.id = question_id}
        raised == found = {} \/ fault
        question == CHOOSE q \in found : TRUE
        remain == IF raised THEN questions ELSE delete(questions, question)
        remain_questions == OrderById(questions)
        current_questions == paginate_questions(arg, remain_questions)
    IN  /\ fault => found # {}
        /\ ~raised => Writes < MaxWrites
        /\ request' = [op |-> "delete_question", question_id |-> question_id,
                       page |-> arg, fault |-> fault]
        /\ questions' = remain
        /\ response' =
             IF raised THEN abort(422)
             ELSE jsonify(200, [success |-> TRUE,
                                deleted |-> question_id,
                                questions |-> current_questions,
                                total_questions |-> Len(remain_questions)])
        /\ UNCHANGED <<categories, nextId, creates, pg>>

\* DELETE /questions/<question_id>; fault: question.delete() raises.
\* abort(404) is raised inside the try block, and the bare except clause
\* catches it like any other exception.
delete_question(question_id, arg, fault) ==
    LET found == {q \in questions : q.id = question_id}
        raised == found = {} \/ fault
        question == CHOOSE q \in found : TRUE
        remain == IF raised THEN questions ELSE delete(questions, question)
        remain_questions == OrderById(remain)
        current_questions == paginate_questions(arg, remain_questions)
    IN  /\ fault => found # {}
        /\ ~raised => Writes < MaxWrites
        /\ request' = [op |-> "delete_question", question_id |-> question_id,
                       page |-> arg, fault |-> fault]
        /\ questions' = remain
        /\ response' =
             IF raised THEN abort(422)
             ELSE jsonify(200, [success |-> TRUE,
                                deleted |-> question_id,
                                questions |-> current_questions,
                                total_questions |-> Len(remain_questions)])
        /\ UNCHANGED <<categories, nextId, creates, pg>>

\* counts the questions with a query made before the insertion
create_question_stale(body, arg, fault) ==
    LET inserted == insert(questions, nextId, body)
        selection == OrderById(questions)
        current_questions == paginate_questions(arg, selection)
        ok == body.kind = "object" /\ ~fault
    IN  /\ fault => body.kind = "object"
        /\ ok => Writes < MaxWrites
        /\ request' = [op |-> "create_question", body |-> body, page |-> arg,
                       fault |-> fault]
        /\ questions' = IF ok THEN inserted ELSE questions
        /\ nextId' = IF ok THEN nextId + 1 ELSE nextId
        /\ creates' = IF ok THEN creates + 1 ELSE creates
        /\ response' =
             IF body.kind = "malformed" THEN abort(400)
             ELSE IF body.kind = "null" THEN abort(500)
             ELSE IF fault THEN abort(422)
             ELSE jsonify(200, [success |-> TRUE,
                                questions |-> current_questions,
                                total_questions |-> Len(selection),
                                created |-> nextId])
        /\ UNCHANGED <<categories, pg>>

\* POST /questions; fault: question.insert() raises
create_question(body, arg, fault) ==
    LET inserted == insert(questions, nextId, body)
        selection == OrderById(inserted)
        current_questions == paginate_questions(arg, selection)
        ok == body.kind = "object" /\ ~fault
    IN  /\ fault => body.kind = "object"
        /\ ok => Writes < MaxWrites
        /\ request' = [op |-> "create_question", body |-> body, page |-> arg,
                       fault |-> fault]
        /\ questions' = IF ok THEN inserted ELSE questions
        /\ nextId' = IF ok THEN nextId + 1 ELSE nextId
        /\ creates' = IF ok THEN creates + 1 ELSE creates
        /\ response' =
             IF body.kind = "malformed" THEN abort(400)
             ELSE IF body.kind = "null" THEN abort(500)
             ELSE IF fault THEN abort(422)
             ELSE jsonify(200, [success |-> TRUE,
                                questions |-> current_questions,
                                total_questions |-> Len(selection),
                                created |-> nextId])
        /\ UNCHANGED <<categories, pg>>

\* POST /questions/search
search_questions(body, arg) ==
    LET search == body.searchTerm
        truthy == ~search.isNone /\ search.str # << >>
        selection == OrderById({q \in questions : ilike(q.question, search.str)})
        qs == paginate_questions(arg, selection)
    IN  /\ request' = [op |-> "search_questions", body |-> body, page |-> arg]
        /\ response' =
             IF body.kind = "malformed" THEN abort(400)
             ELSE IF body.kind = "null" THEN abort(500)
             ELSE IF truthy
                  THEN jsonify(200, [success |-> TRUE,
                                     questions |-> qs,
                                     total_questions |-> Len(selection),
                                     current_category |-> << >>])
             ELSE abort(404)
        /\ UNCHANGED <<questions, categories, nextId, creates, pg>>

\* GET /categories/<category_id>/questions
get_questions_of_category(category_id, arg) ==
    LET selection == OrderById({q \in questions : q.category = category_id})
        qs == paginate_questions(arg, selection)
    IN  /\ request' = [op |-> "get_questions_of_category",
                       category_id |-> category_id, page |-> arg]
        /\ response' =
             IF Len(selection) = 0 THEN abort(404)
             ELSE jsonify(200, [success |-> TRUE,
                                questions |-> qs,
                                total_questions |-> Len(selection),
                                current_category |-> category_id])
        /\ UNCHANGED <<questions, categories, nextId, creates, pg>>

\* the query forgets to exclude the previous questions
list_remain_questions_all(S, previous_questions, quiz_category) ==
    {q \in S : quiz_category.isNone \/ q.category = quiz_category.id}

\* the rows play_quiz queries: Question.id.notin_(previous_questions),
\* filter_by(category=quiz_category['id']) unless quiz_category is None
list_remain_questions(S, previous_questions, quiz_category) ==
    {q \in S : /\ q.id \notin previous_questions
               /\ quiz_category.isNone \/ q.category = quiz_category.id}

\* POST /quizzes; random.choice picks any of the remaining rows.
\* abort(404) is raised inside the try block and caught by the bare except.
play_quiz(body) ==
    LET remain == list_remain_questions(questions, body.previous_questions,
                                        body.quiz_category)
    IN  /\ request' = [op |-> "play_quiz", body |-> body]
        /\ IF body.kind = "malformed" THEN response' = abort(400)
           ELSE IF body.kind = "null" THEN response' = abort(500)
           ELSE IF Cardinality(remain) < 1 THEN response' = abort(422)
           ELSE \E new_question \in remain :
                    response' = jsonify(200, [success |-> TRUE,
                                              question |-> format(new_question)])
        /\ UNCHANGED <<questions, categories, nextId, creates, pg>>

\* POST /categories: the route accepts GET only, the framework raises 405
method_not_allowed ==
    /\ request' = [op |-> "post_categories"]
    /\ response' = abort(405)
    /\ UNCHANGED <<questions, categories, nextId, creates, pg>>

----------------------------------------------------------------------------
(* Request bodies offered to the handlers *)

MalformedBody == [kind |-> "malformed"]
NullBody      == [kind |-> "null"]

CreateBodies ==
    {MalformedBody, NullBody,
     [kind |-> "object", question |-> <<"B", "_">>, answer |-> <<"b">>,
      category |-> 3, difficulty |-> 2]}

SearchBodies ==
    {MalformedBody, NullBody}
    \cup {[kind |-> "object", searchTerm |-> t] : t \in SearchTerms}

QuizCategories ==
    {[isNone |-> TRUE, id |-> 0]}
    \cup {[isNone |-> FALSE, id |-> c] : c \in CategoryIds}

\* request bodies of POST /quizzes whose previous_questions is one of prevs
QuizBodies(prevs) ==
    {MalformedBody, NullBody}
    \cup {[kind |-> "object", previous_questions |-> p, quiz_category |-> c] :
            p \in prevs, c \in QuizCategories}

\* every set of ids the table has ever issued
IssuedIdSets == SUBSET (1..(nextId - 1))

\* no id, or one id the table has ever issued
FewIdSets == {{}} \cup {{i} : i \in 1..(nextId - 1)}

----------------------------------------------------------------------------
PgIdle == [items |-> << >>, page |-> 1, got |-> << >>, acc |-> << >>]

Start(n) ==
    /\ questions = SeedQuestions(n)
    /\ nextId = n + 1
    /\ creates = 0
    /\ request = NoRequest
    /\ response = NoResponse
    /\ pg = PgIdle

\* a database holding few rows, possibly none and no categories
Init ==
    \E n \in 0..MaxSeed :
        /\ Start(n)
        /\ categories \in (IF n = 0 THEN {{}, SeedCategories}
                                    ELSE {SeedCategories})

\* a database that is empty or holds more than a page of rows
InitLarge ==
    /\ \E n \in {0} \cup (MinRows..MaxRows) : Start(n)
    /\ categories = SeedCategories

\* a database a quiz is played on
InitQuiz ==
    /\ \E n \in 0..MaxQuizSeed : Start(n)
    /\ categories = SeedCategories

\* the server serves one request
Next ==
    \/ get_categories
    \/ method_not_allowed
    \/ \E arg \in PageArgs : get_questions(arg)
    \/ \E id \in 1..nextId, arg \in FewPageArgs, fault \in BOOLEAN :
          delete_question(id, arg, fault)
    \/ \E body \in CreateBodies, arg \in FewPageArgs, fault \in BOOLEAN :
          create_question(body, arg, fault)
    \/ \E body \in SearchBodies, arg \in PageArgs : search_questions(body, arg)
    \/ \E c \in CategoryIds, arg \in PageArgs : get_questions_of_category(c, arg)
    \/ \E body \in QuizBodies(FewIdSets) : play_quiz(body)

\* questions are listed, created and deleted
NextLarge ==
    \/ \E arg \in PageArgs : get_questions(arg)
    \/ \E id \in 1..nextId, arg \in FewPageArgs, fault \in BOOLEAN :
          delete_question(id, arg, fault)
    \/ \E body \in CreateBodies, arg \in FewPageArgs, fault \in BOOLEAN :
          create_question(body, arg, fault)

\* a quiz is played with any previous_questions while questions are deleted
NextQuiz ==
    \/ \E body \in QuizBodies(IssuedIdSets) : play_quiz(body)
    \/ \E id \in 1..nextId : delete_question(id, [kind |-> "absent", n |-> 0], FALSE)

----------------------------------------------------------------------------
(* Stand-alone pagination: a list is read page after page *)

PgShapes == {"ascending", "descending", "constant"}

\* n rows whose ids ascend, descend or are all the same
PgItems(n, shape) ==
    [i \in 1..n |-> SeedQuestion(IF shape = "ascending" THEN i
                                  ELSE IF shape = "descending" THEN n + 1 - i
                                  ELSE 1)]

InitPaginate ==
    /\ questions = {}
    /\ categories = SeedCategories
    /\ nextId = 1
    /\ creates = 0
    /\ request = NoRequest
    /\ response = NoResponse
    /\ \E n \in 0..MaxItems, shape \in PgShapes :
          pg = [items |-> PgItems(n, shape), page |-> 1,
                got |-> << >>, acc |-> << >>]

\* paginate_questions is called for page pg.page, then the next page is due
paginate_page ==
    /\ pg.page <= MaxPgPage
    /\ LET got == paginate_questions([kind |-> "int", n |-> pg.page], pg.items)
       IN  pg' = [pg EXCEPT !.got = got, !.acc = pg.acc \o got,
                            !.page = pg.page + 1]
    /\ UNCHANGED <<questions, categories, nextId, creates, request, response>>

NextPaginate == paginate_page

Spec == Init /\ [][Next]_vars

SpecLarge == InitLarge /\ [][NextLarge]_vars

SpecQuiz == InitQuiz /\ [][NextQuiz]_vars

SpecPaginate == InitPaginate /\ [][NextPaginate]_vars

----------------------------------------------------------------------------
(* Vocabulary of the properties *)

\* text contains term as a substring, letter case ignored
Contains(text, term) ==
    \E i \in 0..(Len(text) - Len(term)) :
        \A k \in 1..Len(term) : Lower(text[i + k]) = Lower(term[k])

\* ids the table issued and no longer holds
Deleted == (1..(nextId - 1)) \ Ids(questions)

\* ids of the questions a response carries
ResponseIds(r) ==
    IF ~Success(r) THEN {}
    ELSE IF "questions" \in DOMAIN r.body
         THEN {r.body.questions[i].id : i \in 1..Len(r.body.questions)}
    ELSE IF "question" \in DOMAIN r.body THEN {r.body.question.id}
    ELSE {}

\* page p of list all, written out: Python's all[(p-1)*10 : p*10]
ExpectedPage(all, p) ==
    LET N == Len(all)
        lo == (p - 1) * QUESTIONS_PER_PAGE
    IN  IF p >= 1 THEN SubSeq(all, lo + 1, Min(lo + QUESTIONS_PER_PAGE, N))
        ELSE IF p = 0 THEN << >>
        ELSE SubSeq(all, Max(N + lo, 0) + 1, N + lo + QUESTIONS_PER_PAGE)

Formatted(all) == [i \in 1..Len(all) |-> format(all[i])]

\* number of pages of n items
PageCount(n) == (n + QUESTIONS_PER_PAGE - 1) \div QUESTIONS_PER_PAGE

ErrorStatuses == {400, 404, 405, 422, 500}

ErrorMessage(status) ==
    IF status = 400 THEN "Bad Request"
    ELSE IF status = 404 THEN "Not Found"
    ELSE IF status = 405 THEN "Method Not Allowed"
    ELSE IF status = 422 THEN "Unprocessable"
    ELSE "Internal Server Error"

----------------------------------------------------------------------------
(* Properties *)

\* C1: DELETE /questions/{id} for an id that is not in the store answers
\* 404 with the error-404 envelope and leaves the stored questions unchanged.
C1_DeleteMissingAnswers404 ==
    [][(/\ request'.op = "delete_question"
        /\ request'.question_id \notin Ids(questions))
       => (/\ response'.status = 404
           /\ response'.body.error = 404
           /\ questions' = questions)]_vars

\* C2: POST /quizzes answers 404 whenever no stored question of the requested
\* category (of any category when quiz_category is null) is outside
\* previous_questions.
C2_QuizExhaustedAnswers404 ==
    (/\ request.op = "play_quiz"
     /\ request.body.kind = "object"
     /\ \A q \in questions :
           \/ q.id \in request.body.previous_questions
           \/ /\ ~request.body.quiz_category.isNone
              /\ q.category # request.body.quiz_category.id)
    => response.status = 404

\* C3: a successful POST /quizzes returns a stored question whose id is not
\* among previous_questions and whose category is the requested one if one
\* was requested; and every such question can be the one returned.
C3_QuizReturnsFreshQuestion ==
    /\ (request.op = "play_quiz" /\ Success(response)) =>
          LET got == response.body.question
              prev == request.body.previous_questions
              cat == request.body.quiz_category
          IN  /\ \E q \in questions : format(q) = got
              /\ got.id \notin prev
              /\ ~cat.isNone => got.category = cat.id
    /\ \A prev \in IssuedIdSets, cat \in QuizCategories :
          \A q \in questions :
              (/\ q.id \notin prev
               /\ cat.isNone \/ q.category = cat.id)
              => ENABLED (/\ play_quiz([kind |-> "object",
                                        previous_questions |-> prev,
                                        quiz_category |-> cat])
                          /\ Success(response')
                          /\ response'.body.question.id = q.id)

C3_Witness ==
    /\ request.op = "play_quiz"
    /\ Success(response)
    /\ request.body.previous_questions # {}
    /\ ~request.body.quiz_category.isNone
    /\ Cardinality({q \in questions :
                      /\ q.id \notin request.body.previous_questions
                      /\ q.category = request.body.quiz_category.id}) >= 2

\* C4: every response with status 400, 404, 405, 422 or 500 is the JSON
\* envelope {success: false, error: status, message: fixed string}, the 405
\* of POST /categories with message "Method Not Allowed" included.
C4_ErrorEnvelope ==
    response.status \in ErrorStatuses =>
        /\ response.json
        /\ response.body = [success |-> FALSE, error |-> response.status,
                            message |-> ErrorMessage(response.status)]

\* C5: for a page number p >= 1, paginate_questions returns
\* items[(p-1)*10 : p*10]: at most 10 items in the original order, none past
\* the last page; the pages 1..ceil(N/10) concatenated are the whole list.
C5_PagesPartitionTheList ==
    LET p == pg.page - 1
        N == Len(pg.items)
        lo == (p - 1) * QUESTIONS_PER_PAGE
        hi == Min(lo + QUESTIONS_PER_PAGE, N)
    IN  /\ p >= 1 =>
            /\ Len(pg.got) <= QUESTIONS_PER_PAGE
            /\ Len(pg.got) = Max(hi - lo, 0)
            /\ \A i \in 1..Len(pg.got) : pg.got[i] = format(pg.items[lo + i])
            /\ p > PageCount(N) => pg.got = << >>
        /\ p = PageCount(N) => pg.acc = Formatted(pg.items)

C5_Witness ==
    /\ pg.page - 1 = PageCount(Len(pg.items))
    /\ pg.page - 1 >= 3
    /\ Len(pg.got) \in 1..(QUESTIONS_PER_PAGE - 1)
    /\ pg.items[1] # pg.items[2]

\* C6: a successful POST /questions adds exactly one question under an id
\* never issued before, returned as created, keeps the others, and reports
\* the former count plus 1; a successful GET /questions right after it
\* reports the same total.
C6_CreateAddsOne ==
    [][/\ (request'.op = "create_question" /\ Success(response')) =>
            /\ response'.body.created \notin 1..(nextId - 1)
            /\ questions \subseteq questions'
            /\ Ids(questions' \ questions) = {response'.body.created}
            /\ Cardinality(questions') = Cardinality(questions) + 1
            /\ response'.body.total_questions = Cardinality(questions) + 1
       /\ (/\ request.op = "create_question" /\ Success(response)
           /\ request'.op = "get_questions") =>
            /\ request'.page.kind = "absent" => Success(response')
            /\ Success(response') =>
                 response'.body.total_questions = response.body.total_questions
      ]_vars

C6_Witness ==
    /\ request.op = "get_questions"
    /\ Success(response)
    /\ creates >= 1
    /\ response.body.total_questions >= 2

\* C7: a successful DELETE /questions/{id} of a stored id reports deleted = id
\* and the former count minus 1 and keeps the other questions; from then on
\* the id is in no stored question and in no response, and deleting it again
\* does not succeed.
C7_DeleteIsPermanent ==
    [][/\ (request'.op = "delete_question" /\ Success(response')) =>
            /\ request'.question_id \in Ids(questions)
            /\ response'.body.deleted = request'.question_id
            /\ response'.body.total_questions = Cardinality(questions) - 1
            /\ questions' = {q \in questions : q.id # request'.question_id}
       /\ Deleted \subseteq Deleted'
       /\ Deleted' \cap ResponseIds(response') = {}
       /\ (request'.op = "delete_question" /\ request'.question_id \in Deleted)
            => ~Success(response')
      ]_vars

C7_Witness ==
    /\ Deleted # {}
    /\ creates >= 1
    /\ questions # {}
    /\ request.op = "delete_question"
    /\ request.question_id \in Deleted
    /\ ~Success(response)

\* C8: POST /questions/search answers 404 exactly when searchTerm is missing
\* or empty; otherwise it succeeds with the requested page of the id-ordered
\* questions whose text contains the term, letter case ignored, and with
\* total_questions the number of those questions.
C8_SearchReturnsSubstringMatches ==
    (request.op = "search_questions" /\ request.body.kind = "object") =>
        LET term == request.body.searchTerm
            empty == term.isNone \/ term.str = << >>
            matches == OrderById({q \in questions :
                                    Contains(q.question, term.str)})
        IN  /\ response.status = 404 <=> empty
            /\ ~empty =>
                 /\ Success(response)
                 /\ response.body.questions =
                      Formatted(ExpectedPage(matches, PageOf(request.page)))
                 /\ response.body.total_questions = Len(matches)

\* C9: GET /questions?page=N answers 404 exactly when page N of the
\* id-ordered list of stored questions is empty; otherwise it succeeds with
\* that page and the count of all stored questions; the store is unchanged.
C9_ListAnswers404IffPageEmpty ==
    [][request'.op = "get_questions" =>
          LET all == OrderById(questions)
              page == ExpectedPage(all, PageOf(request'.page))
          IN  /\ questions' = questions
              /\ categories' = categories
              /\ response'.status = 404 <=> page = << >>
              /\ page # << >> =>
                   /\ Success(response')
                   /\ response'.body.questions = Formatted(page)
                   /\ response'.body.total_questions = Len(all)
      ]_vars

C9_Witness ==
    /\ request.op = "get_questions"
    /\ PageOf(request.page) = 2
    /\ Success(response)
    /\ Len(response.body.questions) < response.body.total_questions

\* C10: GET /categories/{id}/questions never succeeds with an empty questions
\* list: it answers 404 whenever the page it would return is empty.
C10_CategoryNeverSucceedsEmpty ==
    request.op = "get_questions_of_category" =>
        /\ Success(response) => Len(response.body.questions) > 0
        /\ ExpectedPage(OrderById({q \in questions :
                                     q.category = request.category_id}),
                        PageOf(request.page)) = << >>
             => response.status = 404

=============================================================================
